---- MODULE Spec2Model ----
(***************************************************************************)
(* Model of scilpy/reconst/sh.py: the four chunked operations on a volume  *)
(* of spherical-harmonic coefficients (peaks_from_sh, maps_from_sh,        *)
(* convert_sh_basis, convert_sh_to_sf), their per-voxel loops, the         *)
(* multiprocessing pool that runs the chunks, and the reassembly.          *)
(*                                                                         *)
(* A volume is the sequence of its voxels in C (mask-traversal) order.     *)
(* A floating-point value is an exact extended rational <<n, d>> in lowest *)
(* terms: d > 0 is the number n/d, <<1,0>> is +inf, <<-1,0>> is -inf and   *)
(* <<0,0>> is nan.  Coefficients and ODF samples are integers.             *)
(***************************************************************************)
EXTENDS Integers, Sequences, FiniteSets, TLC

VARIABLES op, shm_coeff, mask_arg, nbr_arg, opts, peak_values_arg,
          peak_indices_arg, pc, mask, nbr_processes, flat, chunks, pool,
          task, results, finished, dispatched, tmp, written,
          all_time, ret, error

vars == <<op, shm_coeff, mask_arg, nbr_arg, opts, peak_values_arg,
          peak_indices_arg, pc, mask, nbr_processes, flat, chunks, pool,
          task, results, finished, dispatched, tmp, written,
          all_time, ret, error>>

(***************************************************************************)
(* Bounds of the model.                                                    *)
(***************************************************************************)
NVox == 3          \* voxels in the volume
MaxProc == 2       \* largest explicit nbr_processes
MaxPeaks == 3      \* largest npeaks
CpuCount == 2      \* what multiprocessing.cpu_count() answers

(***************************************************************************)
(* Arithmetic on extended rationals.                                       *)
(***************************************************************************)
Abs(x) == IF x < 0 THEN -x ELSE x

Sign(x) == IF x < 0 THEN -1 ELSE IF x > 0 THEN 1 ELSE 0

RECURSIVE GCD(_, _)
GCD(a, b) == IF b = 0 THEN a ELSE GCD(b, a % b)

Norm(n, d) ==
    IF d = 0 THEN <<Sign(n), 0>>
    ELSE LET g == GCD(Abs(n), Abs(d))
         IN  <<Sign(d) * (n \div g), Abs(d) \div g>>

R(i) == <<i, 1>>

NegInf == <<-1, 0>>

RLess(a, b) == a[1] * b[2] < b[1] * a[2]

\* Python's max(a, b) and np.maximum(a, b) on two non-nan values
RMax(a, b) == IF RLess(a, b) THEN b ELSE a

\* IEEE division, as numpy performs it (x/0 is +-inf or nan, x/inf is 0)
RDiv(a, b) == Norm(a[1] * b[2], a[2] * b[1])

RMul(a, b) == Norm(a[1] * b[1], a[2] * b[2])

RSub(a, b) == Norm(a[1] * b[2] - b[1] * a[2], a[2] * b[2])

RECURSIVE SumSeq(_)
SumSeq(s) == IF s = <<>> THEN 0 ELSE Head(s) + SumSeq(Tail(s))

RECURSIVE MaxSeq(_)
MaxSeq(s) == IF Len(s) = 1 THEN s[1]
             ELSE LET m == MaxSeq(Tail(s)) IN IF m > s[1] THEN m ELSE s[1]

RECURSIVE MinSeq(_)
MinSeq(s) == IF Len(s) = 1 THEN s[1]
             ELSE LET m == MinSeq(Tail(s)) IN IF m < s[1] THEN m ELSE s[1]

RECURSIVE RMaxSeq(_)
RMaxSeq(s) == IF Len(s) = 1 THEN s[1] ELSE RMax(s[1], RMaxSeq(Tail(s)))

Dot(u, v) == SumSeq([k \in 1..Len(u) |-> u[k] * v[k]])

\* np.dot(row, M) for a matrix M given as the sequence of its rows
VecMat(row, M) ==
    [j \in 1..Len(M[1]) |-> SumSeq([k \in 1..Len(row) |-> row[k] * M[k][j]])]

\* ndarray.any() of one voxel's coefficient row
AnyNonZero(row) == \E k \in 1..Len(row) : row[k] # 0

(***************************************************************************)
(* The sphere and the transform matrices.  The sphere has four vertices,   *)
(* given in units of 1/5 (each has norm 5), joined by the edges of a       *)
(* 4-cycle; any two are more than min_separation_angle apart and no two    *)
(* are antipodal.  The matrices stand for what sh_to_sf_matrix returns for *)
(* an order-2 symmetric basis (6 coefficients).                            *)
(***************************************************************************)
NCoef == 6

NDirs == 4

Vertices == << <<5, 0, 0>>, <<3, 4, 0>>, <<0, 5, 0>>, <<0, -3, 4>> >>

Neighbours(v) == {((v % NDirs) + 1), (((v + NDirs - 2) % NDirs) + 1)}

B == << <<1, 1, 1, 1>>,
        <<2, -2, 0, -1>>,
        <<0, 0, 1, 0>>,
        <<1, 0, -1, 0>>,
        <<0, 1, 0, -1>>,
        <<-1, 1, -1, 1>> >>

\* input-basis matrix of the two conversions
B_in == B

\* pseudo-inverse of the output basis of convert_sh_basis (NDirs x NCoef)
invB_out == << <<1, 1, 0, 0, 0, 0>>,
               <<1, 0, -1, 0, 1, 0>>,
               <<1, 0, 1, -1, 0, 0>>,
               <<1, -1, 0, 0, -1, 1>> >>

(***************************************************************************)
(* Inputs: the coefficient rows a voxel may hold.                          *)
(*   all zero;                                                             *)
(*   non-zero with zero sum, its ODF <<-1, 0, -1, -2>> is zero once        *)
(*   clipped and has no peak;                                              *)
(*   ODF <<15, 3, 12, 6>>: two peaks (15 and 12 at vertices 0 and 2), a    *)
(*   non-zero minimum, and a sample that float32 rounds.                   *)
(***************************************************************************)
ZeroRow == [j \in 1..NCoef |-> 0]

CoefRows == { ZeroRow,
              <<-1, 0, 0, 0, 1, 0>>,
              <<9, 3, 3, 0, 0, 0>> }

Volumes == [1..NVox -> CoefRows]

\* An optional argument is a sequence: <<>> is None, <<x>> is the value x.
None == <<>>

MaskArgs == {None} \cup {<<m>> : m \in [1..NVox -> BOOLEAN]}

NbrArgs == {None} \cup {<<n>> : n \in 0..MaxProc}

\* gfa_thr values, as rationals
GfaThrs == {<<0, 1>>, <<3, 4>>}

(***************************************************************************)
(* dipy.direction.peaks.peak_directions, as _peaks_from_sh_loop calls it:  *)
(* the local maxima of the ODF over the sphere's edges (a vertex that is   *)
(* >= all its neighbours and > at least one), in descending value order,   *)
(* cut where a maximum falls under relative_peak_threshold times the       *)
(* largest one (both taken above the ODF minimum).  The answer is the      *)
(* sequence of vertex positions; the code's index is the position - 1.     *)
(***************************************************************************)
relative_peak_threshold == <<1, 2>>

absolute_threshold == 0

IsLocalMax(odf, v) ==
    /\ \A w \in Neighbours(v) : odf[v] >= odf[w]
    /\ \E w \in Neighbours(v) : odf[v] > odf[w]

RECURSIVE SortDesc(_, _)
SortDesc(odf, S) ==
    IF S = {} THEN <<>>
    ELSE LET best == CHOOSE v \in S :
                        \A w \in S : \/ odf[v] > odf[w]
                                     \/ (odf[v] = odf[w] /\ v <= w)
         IN  <<best>> \o SortDesc(odf, S \ {best})

PeakDirections(odf) ==
    LET maxima == SortDesc(odf, {v \in 1..NDirs : IsLocalMax(odf, v)})
        n      == Len(maxima)
        lo     == IF MinSeq(odf) >= 0 THEN MinSeq(odf) ELSE 0
        keep   == {k \in 1..n :
                     RLess(RMul(relative_peak_threshold,
                                R(odf[maxima[1]] - lo)),
                           R(odf[maxima[k]] - lo))
                     \/ RMul(relative_peak_threshold, R(odf[maxima[1]] - lo))
                          = R(odf[maxima[k]] - lo)}
    IN  IF n = 0 THEN <<>>
        ELSE IF odf[maxima[1]] < 0 THEN <<>>
        ELSE IF n = 1 THEN maxima
        ELSE SubSeq(maxima, 1, Cardinality(keep))

(***************************************************************************)
(* _peaks_from_sh_loop: one voxel's rows of peak_dirs, peak_values and     *)
(* peak_indices, and the loop over a flat array of voxels.                 *)
(***************************************************************************)
RZero3 == <<R(0), R(0), R(0)>>

\* the rows the loop allocates: zeros, and indices filled with -1
EmptyPeakRow(npeaks) ==
    [dirs    |-> [k \in 1..npeaks |-> RZero3],
     values  |-> [k \in 1..npeaks |-> R(0)],
     indices |-> [k \in 1..npeaks |-> -1]]

\* a count that leaves the smallest maximum out when all of them fit
FilledCountDropsLast(npeaks, found) ==
    IF npeaks < found THEN npeaks ELSE found - 1

\* line 220: n = min(npeaks, peaks.shape[0])
FilledCount(npeaks, found) ==
    IF npeaks < found THEN npeaks ELSE found

PeaksVoxel(row, npeaks, normalize_peaks) ==
    IF ~AnyNonZero(row) THEN EmptyPeakRow(npeaks)
    ELSE
    LET dotted == VecMat(row, B)
        odf    == [j \in 1..NDirs |->
                     IF dotted[j] < absolute_threshold THEN 0 ELSE dotted[j]]
        ind    == PeakDirections(odf)
        n      == FilledCount(npeaks, Len(ind))
        value(k) == IF normalize_peaks
                    THEN RDiv(R(odf[ind[k]]), R(odf[ind[1]]))
                    ELSE R(odf[ind[k]])
        values == [k \in 1..npeaks |-> IF k <= n THEN value(k) ELSE R(0)]
        dir(k) == [c \in 1..3 |-> R(Vertices[ind[k]][c])]
    IN  IF Len(ind) = 0 THEN EmptyPeakRow(npeaks)
        ELSE [dirs    |-> [k \in 1..npeaks |->
                             IF k > n THEN RZero3
                             ELSE IF normalize_peaks
                                  THEN [c \in 1..3 |->
                                          RMul(dir(k)[c], values[k])]
                                  ELSE dir(k)],
              values  |-> values,
              indices |-> [k \in 1..npeaks |->
                             IF k <= n THEN ind[k] - 1 ELSE -1]]

\* PeaksVoxel over the rows a voxel may hold, evaluated once
PeaksVoxelOf ==
    [row \in CoefRows |->
        [npeaks \in 1..MaxPeaks |->
            [normalize_peaks \in BOOLEAN |->
                PeaksVoxel(row, npeaks, normalize_peaks)]]]

_peaks_from_sh_loop(data, npeaks, normalize_peaks) ==
    [idx \in 1..Len(data) |-> PeaksVoxelOf[data[idx]][npeaks][normalize_peaks]]

(***************************************************************************)
(* _maps_from_sh_loop.  The loop's locals are a record; MapsVoxel is one   *)
(* iteration of the loop and MapsLoopFrom runs the iterations in order.    *)
(*   gfa_map  holds the square of the GFA, (n*S2 - S1^2) / ((n-1)*S2),     *)
(*            and is compared with the square of gfa_thr;                  *)
(*   afd_sum  holds the radicand dot(c, c) of the square root;             *)
(*   rgb_map  holds a vector as [dir, mag]: mag times the unit vector      *)
(*            along the integer vector dir (dir is in lowest terms);       *)
(*   qa_map   holds [ndim, rows]: the (n, npeaks) array the loop starts    *)
(*            with (ndim 2), or a single row of npeaks values (ndim 1).    *)
(***************************************************************************)
ZeroRgb == [dir |-> <<0, 0, 0>>, mag |-> R(0)]

Primitive(v) ==
    LET g == GCD(GCD(Abs(v[1]), Abs(v[2])), Abs(v[3]))
    IN  IF g = 0 THEN v ELSE [c \in 1..3 |-> v[c] \div g]

\* np.dot(np.abs(sphere.vertices).T, odf)
AbsVerticesDot(odf) ==
    [c \in 1..3 |-> SumSeq([j \in 1..NDirs |-> Abs(Vertices[j][c]) * odf[j]])]

\* dipy.reconst.odf.gfa, squared (0 for an all-zero ODF)
GfaSq(odf) ==
    LET s1 == SumSeq(odf)
        s2 == Dot(odf, odf)
    IN  IF s2 = 0 THEN R(0)
        ELSE Norm(NDirs * s2 - s1 * s1, (NDirs - 1) * s2)

CountValid(indices) == Cardinality({k \in 1..Len(indices) : indices[k] > -1})

MapsLoopInit(n, npeaks) ==
    [nufo_map   |-> [k \in 1..n |-> 0],
     afd_max    |-> [k \in 1..n |-> R(0)],
     afd_sum    |-> [k \in 1..n |-> 0],
     rgb_map    |-> [k \in 1..n |-> ZeroRgb],
     gfa_map    |-> [k \in 1..n |-> R(0)],
     qa_map     |-> [ndim |-> 2,
                     rows |-> [k \in 1..n |-> [q \in 1..npeaks |-> R(0)]]],
     max_odf    |-> R(0),
     global_max |-> NegInf]

\* the assignment of line 402: qa_map = peak_values[idx] - odf.min()
QaAssign(st, idx, row) == [ndim |-> 1, rows |-> <<row>>]

\* lines 387-395: the clipped ODF of a voxel and what is computed from it
VoxelOdf(coef) ==
    LET dotted == VecMat(coef, B)
        odf    == [j \in 1..NDirs |-> IF dotted[j] < 0 THEN 0 ELSE dotted[j]]
    IN  [sum_odf |-> SumSeq(odf),
         rgb     |-> [dir |-> Primitive(AbsVerticesDot(odf)),
                      mag |-> R(SumSeq(odf))],
         gfa     |-> GfaSq(odf),
         min     |-> MinSeq(odf),
         max     |-> MaxSeq(odf)]

\* VoxelOdf over the rows a voxel may hold, evaluated once
VoxelOdfOf == [row \in CoefRows |-> VoxelOdf(row)]

MapsVoxel(st, idx, coef, pvals, pinds, gfa_thr) ==
    IF ~AnyNonZero(coef) THEN st
    ELSE
    LET o   == VoxelOdfOf[coef]
        st1 == [st EXCEPT !.max_odf = RMax(@, R(o.sum_odf))]
        st2 == IF o.sum_odf > 0
               THEN [st1 EXCEPT !.rgb_map[idx] = o.rgb]
               ELSE st1
        st3 == [st2 EXCEPT !.gfa_map[idx] = o.gfa]
    IN  IF RLess(st3.gfa_map[idx], RMul(gfa_thr, gfa_thr))
        THEN [st3 EXCEPT !.global_max = RMax(@, R(o.max))]
        ELSE IF CountValid(pinds) # 0
        THEN [st3 EXCEPT
                !.nufo_map[idx] = CountValid(pinds),
                !.afd_max[idx]  = RMaxSeq(pvals),
                !.afd_sum[idx]  = Dot(coef, coef),
                !.qa_map        = QaAssign(st3, idx,
                                    [q \in 1..Len(pvals) |->
                                       RSub(pvals[q], R(o.min))]),
                !.global_max    = RMax(@, pvals[1])]
        ELSE st3

RECURSIVE MapsLoopFrom(_, _, _, _, _, _)
MapsLoopFrom(st, idx, data, pvals, pinds, gfa_thr) ==
    IF idx > Len(data) THEN st
    ELSE MapsLoopFrom(MapsVoxel(st, idx, data[idx], pvals[idx], pinds[idx],
                                gfa_thr),
                      idx + 1, data, pvals, pinds, gfa_thr)

_maps_from_sh_loop(data, pvals, pinds, npeaks, gfa_thr) ==
    MapsLoopFrom(MapsLoopInit(Len(data), npeaks), 1, data, pvals, pinds,
                 gfa_thr)

\* numpy's broadcast of a qa_map onto n rows of an (n, npeaks) target
QaRows(qa, n) == IF qa.ndim = 1 THEN [k \in 1..n |-> qa.rows[1]] ELSE qa.rows

(***************************************************************************)
(* _convert_sh_basis_loop and _convert_sh_to_sf_loop.                      *)
(* float32 keeps integers of magnitude below F32Exact and rounds larger    *)
(* ones to the nearest even integer below (one mantissa bit is lost).      *)
(***************************************************************************)
F32Exact == 8

Float32(x) == IF Abs(x) < F32Exact THEN x ELSE Sign(x) * ((Abs(x) \div 2) * 2)

\* ndarray.astype(dtype) of a matrix
AsType(M, dtype) ==
    IF dtype = "float32"
    THEN [k \in 1..Len(M) |-> [j \in 1..Len(M[k]) |-> Float32(M[k][j])]]
    ELSE M

_convert_sh_basis_loop(sh) ==
    [idx \in 1..Len(sh) |->
        IF AnyNonZero(sh[idx]) THEN VecMat(VecMat(sh[idx], B_in), invB_out)
        ELSE sh[idx]]

_convert_sh_to_sf_loop(sh, B_dtype) ==
    [idx \in 1..Len(sh) |->
        IF AnyNonZero(sh[idx])
        THEN [j \in 1..NDirs |-> Float32(VecMat(sh[idx], B_dtype)[j])]
        ELSE [j \in 1..NDirs |-> 0]]

(***************************************************************************)
(* The masking and chunking that the four operations share.                *)
(***************************************************************************)
\* mask = np.sum(shm_coeff, axis=3).astype(bool)
DefaultMask(vol) == [v \in 1..Len(vol) |-> SumSeq(vol[v]) # 0]

ResolveMask(vol, m) == IF m = None THEN DefaultMask(vol) ELSE m[1]

\* np.count_nonzero(mask[:v])
Rank(m, v) == Cardinality({w \in 1..v : m[w]})

\* positions of the true voxels of the mask, in traversal order
RECURSIVE ActiveFrom(_, _)
ActiveFrom(m, v) ==
    IF v > Len(m) THEN <<>>
    ELSE (IF m[v] THEN <<v>> ELSE <<>>) \o ActiveFrom(m, v + 1)

\* arr[mask]
Flatten(arr, m) == LET a == ActiveFrom(m, 1) IN [k \in 1..Len(a) |-> arr[a[k]]]

\* out = np.zeros(...); out[mask] = rows
Scatter(rows, m, zero) ==
    [v \in 1..Len(m) |-> IF m[v] THEN rows[Rank(m, v)] ELSE zero]

\* a split that drops the remainder of the division
ChunkSizeFloor(len, n, i) == len \div n

\* sizes of np.array_split(a, n): the first len(a) % n chunks get one more
ChunkSize(len, n, i) == (len \div n) + (IF i <= len % n THEN 1 ELSE 0)

\* chunk_len = np.cumsum([0] + [len(c) for c in chunks]), from position 1
RECURSIVE ChunkLen(_, _)
ChunkLen(sizes, i) ==
    IF i = 1 THEN 0 ELSE ChunkLen(sizes, i - 1) + sizes[i - 1]

ArraySplit(a, n) ==
    LET sizes == [i \in 1..n |-> ChunkSize(Len(a), n, i)]
    IN  [i \in 1..n |->
           SubSeq(a, ChunkLen(sizes, i) + 1, ChunkLen(sizes, i) + sizes[i])]

\* offsets that take every chunk to have the size len(a) // n
OffsetsUniform(cs) ==
    [i \in 1..(Len(cs) + 1) |->
        (i - 1) * (SumSeq([k \in 1..Len(cs) |-> Len(cs[k])]) \div Len(cs))]

Offsets(cs) ==
    [i \in 1..(Len(cs) + 1) |-> ChunkLen([k \in 1..Len(cs) |-> Len(cs[k])], i)]

\* target[lo:hi] = rows
SliceAssign(target, lo, hi, rows) ==
    [k \in 1..Len(target) |->
        IF k > lo /\ k <= hi THEN rows[k - lo] ELSE target[k]]

\* the worker count each operation computes from its nbr_processes argument
ResolveNbr(o, n) ==
    IF o = "peaks_from_sh"
    THEN (IF n = None THEN <<CpuCount>>
          ELSE IF n[1] <= 0 THEN <<CpuCount>> ELSE n)
    ELSE IF o \in {"maps_from_sh", "convert_sh_basis"}
    THEN (IF n = None THEN <<CpuCount>>
          ELSE IF n[1] < 0 THEN <<CpuCount>> ELSE n)
    ELSE n

(***************************************************************************)
(* The calls.  A flat voxel is [coef, pvals, pinds]: its coefficient row   *)
(* and, for maps_from_sh, its rows of peak_values and peak_indices (the    *)
(* three arrays are flattened and split with the same mask and sections).  *)
(***************************************************************************)
Ops == {"peaks_from_sh", "maps_from_sh", "convert_sh_basis",
        "convert_sh_to_sf"}

Coefs(rows) == [k \in 1..Len(rows) |-> rows[k].coef]

\* the per-chunk function of each operation (the *_loop functions)
Loop(o, os, rows) ==
    IF o = "peaks_from_sh"
    THEN _peaks_from_sh_loop(Coefs(rows), os.npeaks, os.normalize_peaks)
    ELSE IF o = "maps_from_sh"
    THEN _maps_from_sh_loop(Coefs(rows),
                            [k \in 1..Len(rows) |-> rows[k].pvals],
                            [k \in 1..Len(rows) |-> rows[k].pinds],
                            os.npeaks, os.gfa_thr)
    ELSE IF o = "convert_sh_basis"
    THEN _convert_sh_basis_loop(Coefs(rows))
    ELSE _convert_sh_to_sf_loop(Coefs(rows), AsType(B_in, os.dtype))

\* the *_parallel functions: the loop's result tagged with the chunk id
Parallel(o, os, rows, chunk_id) ==
    [chunk_id |-> chunk_id, res |-> Loop(o, os, rows)]

\* the zero-filled buffers the chunk results are copied into
ZeroPeakRow(npeaks) ==
    [dirs    |-> [k \in 1..npeaks |-> RZero3],
     values  |-> [k \in 1..npeaks |-> R(0)],
     indices |-> [k \in 1..npeaks |-> 0]]

ZeroMaps(n, npeaks) ==
    [nufo_map |-> [k \in 1..n |-> 0],
     afd_max  |-> [k \in 1..n |-> R(0)],
     afd_sum  |-> [k \in 1..n |-> 0],
     rgb_map  |-> [k \in 1..n |-> ZeroRgb],
     gfa_map  |-> [k \in 1..n |-> R(0)],
     qa_map   |-> [ndim |-> 2,
                   rows |-> [k \in 1..n |-> [q \in 1..npeaks |-> R(0)]]]]

ZeroTmp(o, os, n) ==
    IF o = "peaks_from_sh" THEN [k \in 1..n |-> ZeroPeakRow(os.npeaks)]
    ELSE IF o = "maps_from_sh" THEN ZeroMaps(n, os.npeaks)
    ELSE IF o = "convert_sh_basis" THEN [k \in 1..n |-> ZeroRow]
    ELSE [k \in 1..n |-> [j \in 1..NDirs |-> 0]]

\* the six maps of a loop result, without its two trackers
MapsOf(st) ==
    [nufo_map |-> st.nufo_map, afd_max |-> st.afd_max,
     afd_sum |-> st.afd_sum, rgb_map |-> st.rgb_map,
     gfa_map |-> st.gfa_map, qa_map |-> st.qa_map]

\* lines 504-505: the two running maxima over the chunk results
ReduceMaxOdf(at, res) == RMax(at.global_max, res.max_odf)

ReduceGlobalMax(at, res) == RMax(at.global_max, res.global_max)

\* one iteration of the reassembly loop: copy result r into tmp[lo:hi]
MergeInto(o, t, r, lo, hi) ==
    IF o = "maps_from_sh"
    THEN [nufo_map |-> SliceAssign(t.nufo_map, lo, hi, r.nufo_map),
          afd_max  |-> SliceAssign(t.afd_max, lo, hi, r.afd_max),
          afd_sum  |-> SliceAssign(t.afd_sum, lo, hi, r.afd_sum),
          rgb_map  |-> SliceAssign(t.rgb_map, lo, hi, r.rgb_map),
          gfa_map  |-> SliceAssign(t.gfa_map, lo, hi, r.gfa_map),
          qa_map   |-> [ndim |-> 2,
                        rows |-> SliceAssign(t.qa_map.rows, lo, hi,
                                             QaRows(r.qa_map, hi - lo))]]
    ELSE SliceAssign(t, lo, hi, r)

\* "bring back to the original shape"
ScatterBack(o, os, t, m) ==
    IF o = "peaks_from_sh" THEN Scatter(t, m, ZeroPeakRow(os.npeaks))
    ELSE IF o = "maps_from_sh"
    THEN [nufo_map |-> Scatter(t.nufo_map, m, 0),
          afd_max  |-> Scatter(t.afd_max, m, R(0)),
          afd_sum  |-> Scatter(t.afd_sum, m, 0),
          rgb_map  |-> Scatter(t.rgb_map, m, ZeroRgb),
          gfa_map  |-> Scatter(t.gfa_map, m, R(0)),
          qa_map   |-> Scatter(QaRows(t.qa_map, Rank(m, Len(m))), m,
                               [q \in 1..os.npeaks |-> R(0)])]
    ELSE IF o = "convert_sh_basis" THEN Scatter(t, m, ZeroRow)
    ELSE Scatter(t, m, [j \in 1..NDirs |-> 0])

\* lines 529-531: rgb_map_array /= max_odf; *= 255; qa_map_array /= global_max
Rescale(maps, at) ==
    [maps EXCEPT
       !.rgb_map = [v \in 1..Len(@) |->
                      [dir |-> @[v].dir,
                       mag |-> RMul(RDiv(@[v].mag, at.max_odf), R(255))]],
       !.qa_map  = [v \in 1..Len(@) |->
                      [q \in 1..Len(@[v]) |-> RDiv(@[v][q], at.global_max)]]]

(***************************************************************************)
(* Initial states: one call of one operation, with its arguments.          *)
(* The peak arrays given to maps_from_sh are those peaks_from_sh returns   *)
(* for the same volume with no mask and npeaks = MaxPeaks.                 *)
(***************************************************************************)
FullMask == [v \in 1..NVox |-> TRUE]

\* a mask that leaves the first voxel out
AllButFirst == [v \in 1..NVox |-> v > 1]

PeaksOfVolume(vol, m, npeaks, normalize_peaks) ==
    Scatter(_peaks_from_sh_loop(Flatten(vol, ResolveMask(vol, m)), npeaks,
                                normalize_peaks),
            ResolveMask(vol, m), ZeroPeakRow(npeaks))

\* a test that takes the two legacy flags to differ
SameBasisLegacyDiffers(os) ==
    /\ os.input_basis = os.output_basis
    /\ os.is_input_legacy # os.is_output_legacy

\* line 604: input_basis == output_basis and
\* is_input_legacy == is_output_legacy
SameBasis(os) ==
    /\ os.input_basis = os.output_basis
    /\ os.is_input_legacy = os.is_output_legacy

\* rows of 5 coefficients: no SH order has that many
OddRows == {<<0, 0, 0, 0, 0>>, <<1, 0, 2, 0, 0>>}

\* volumes whose last axis is no coefficient count; they are given to the
\* call of convert_sh_basis that converts nothing
OddVolumes == [1..NVox -> OddRows]

OptsOf(o) ==
    IF o = "peaks_from_sh"
    THEN [npeaks : {1, MaxPeaks}, normalize_peaks : BOOLEAN]
    ELSE IF o = "maps_from_sh"
    THEN [npeaks : {MaxPeaks}, gfa_thr : GfaThrs,
          peaks_mask : {None, <<AllButFirst>>}]
    ELSE IF o = "convert_sh_basis"
    THEN [input_basis : {"descoteaux07"},
          output_basis : {"descoteaux07", "tournier07"},
          is_input_legacy : {TRUE},
          is_output_legacy : BOOLEAN]
    ELSE [dtype : {"float32", "float64"}]

Init ==
    /\ op \in Ops
    /\ opts \in OptsOf(op)
    /\ shm_coeff \in Volumes \cup (IF op = "convert_sh_basis" /\ SameBasis(opts)
                                   THEN OddVolumes ELSE {})
    /\ mask_arg \in MaskArgs
    /\ nbr_arg \in NbrArgs
    /\ LET peaks == IF op = "maps_from_sh"
                    THEN PeaksOfVolume(shm_coeff, opts.peaks_mask, MaxPeaks,
                                       FALSE)
                    ELSE <<>>
       IN  /\ peak_values_arg = [v \in 1..Len(peaks) |-> peaks[v].values]
           /\ peak_indices_arg = [v \in 1..Len(peaks) |-> peaks[v].indices]
    /\ pc = "call"
    /\ mask = <<>>
    /\ nbr_processes = None
    /\ flat = <<>>
    /\ chunks = <<>>
    /\ pool = "none"
    /\ task = <<>>
    /\ results = <<>>
    /\ finished = <<>>
    /\ dispatched = <<>>
    /\ tmp = <<>>
    /\ written = <<>>
    /\ all_time = <<>>
    /\ ret = None
    /\ error = "none"

inputs == <<op, shm_coeff, mask_arg, nbr_arg, opts, peak_values_arg,
            peak_indices_arg>>

(***************************************************************************)
(* The head of each function, up to the test on nbr_processes: the no-op   *)
(* return of convert_sh_basis, the mask, the worker count, the flattening. *)
(***************************************************************************)
Prepare ==
    /\ pc = "call"
    /\ IF op = "convert_sh_basis" /\ SameBasis(opts)
       THEN /\ pc' = "done"
            /\ ret' = <<shm_coeff>>
            /\ UNCHANGED <<mask, nbr_processes, flat>>
       ELSE /\ pc' = "ready"
            /\ mask' = ResolveMask(shm_coeff, mask_arg)
            /\ nbr_processes' = ResolveNbr(op, nbr_arg)
            /\ flat' = Flatten([v \in 1..NVox |->
                                  [coef  |-> shm_coeff[v],
                                   pvals |-> IF op = "maps_from_sh"
                                             THEN peak_values_arg[v] ELSE <<>>,
                                   pinds |-> IF op = "maps_from_sh"
                                             THEN peak_indices_arg[v]
                                             ELSE <<>>]],
                               ResolveMask(shm_coeff, mask_arg))
            /\ UNCHANGED ret
    /\ UNCHANGED <<inputs, chunks, pool, task, results, finished, dispatched,
                   tmp, written, all_time, error>>

\* a flat array that is a view of the volume when the mask selects all of it
SharesMemoryWhenFull(vol, m) == \A v \in 1..Len(m) : m[v]

\* shm_coeff[mask] with a boolean mask (lines 305, 459, 624, 733) is a new
\* array: the flat array shares no memory with the caller's volume
SharesMemory(vol, m) == FALSE

\* the caller's volume after rows were assigned in place to its flat array
WrittenThrough(vol, m, rows) ==
    IF SharesMemory(vol, m)
    THEN [v \in 1..Len(vol) |-> IF m[v] THEN rows[Rank(m, v)] ELSE vol[v]]
    ELSE vol

\* the branch nbr_processes == 1: the loop runs in the calling process.
\* _convert_sh_basis_loop assigns sh[idx] in place and returns sh, so the
\* flat array holds the converted rows afterwards; the other loops fill
\* arrays of their own.
Sequential ==
    /\ pc = "ready"
    /\ nbr_processes = <<1>>
    /\ LET r == Loop(op, opts, flat)
       IN  IF op = "maps_from_sh"
           THEN /\ tmp' = MapsOf(r)
                /\ all_time' = [max_odf |-> r.max_odf,
                                global_max |-> r.global_max]
                /\ UNCHANGED <<flat, shm_coeff>>
           ELSE /\ tmp' = r
                /\ UNCHANGED all_time
                /\ IF op = "convert_sh_basis"
                   THEN /\ flat' = [k \in 1..Len(flat) |->
                                      [flat[k] EXCEPT !.coef = r[k]]]
                        /\ shm_coeff' = WrittenThrough(shm_coeff, mask, r)
                   ELSE UNCHANGED <<flat, shm_coeff>>
    /\ pc' = "assembled"
    /\ UNCHANGED <<op, mask_arg, nbr_arg, opts, peak_values_arg,
                   peak_indices_arg, mask, nbr_processes, chunks, pool, task,
                   results, finished, dispatched, written, ret,
                   error>>

\* the else branch: np.array_split, multiprocessing.Pool, pool.map
Dispatch ==
    /\ pc = "ready"
    /\ nbr_processes # <<1>>
    /\ IF nbr_processes = None
       THEN \* np.array_split(a, None): int(None) raises
            /\ pc' = "failed"
            /\ error' = "TypeError"
            /\ UNCHANGED <<chunks, pool, task, results, dispatched>>
       ELSE IF nbr_processes[1] <= 0
       THEN \* np.array_split: number sections must be larger than 0
            /\ pc' = "failed"
            /\ error' = "ValueError"
            /\ UNCHANGED <<chunks, pool, task, results, dispatched>>
       ELSE /\ chunks' = ArraySplit(flat, nbr_processes[1])
            /\ pool' = "open"
            /\ task' = [i \in 1..nbr_processes[1] |-> "queued"]
            /\ results' = [i \in 1..nbr_processes[1] |-> <<>>]
            /\ dispatched' = [i \in 1..nbr_processes[1] |-> 1]
            /\ pc' = "map"
            /\ UNCHANGED error
    /\ UNCHANGED <<inputs, mask, nbr_processes, flat, finished, tmp,
                   written, all_time, ret>>

\* a worker computes chunk i (chunk ids are 0-based in the code)
WorkerRun(i) ==
    /\ pc = "map"
    /\ task[i] = "queued"
    /\ task' = [task EXCEPT ![i] = "done"]
    /\ results' = [results EXCEPT ![i] = <<Parallel(op, opts, chunks[i], i)>>]
    /\ finished' = Append(finished, i)
    /\ UNCHANGED <<inputs, pc, mask, nbr_processes, flat, chunks, pool,
                   dispatched, tmp, written, all_time, ret, error>>

\* the computation of chunk i raises in its worker
WorkerRaise(i) ==
    /\ pc = "map"
    /\ task[i] = "queued"
    /\ task' = [task EXCEPT ![i] = "raised"]
    /\ finished' = Append(finished, i)
    /\ UNCHANGED <<inputs, pc, mask, nbr_processes, flat, chunks, pool,
                   results, dispatched, tmp, written, all_time, ret,
                   error>>

\* a pool.map that swallows the exception of a worker
AnyRaisedSwallowed(t) == FALSE

\* pool.map re-raises when the computation of some chunk raised
AnyRaised(t) == \E i \in DOMAIN t : t[i] = "raised"

\* a map that returns as soon as one task has ended
SomeEnded(t) == \E i \in 1..Len(t) : t[i] # "queued"

\* pool.map blocks until every task has ended
AllEnded(t) == \A i \in 1..Len(t) : t[i] # "queued"

\* pool.map returns once every task has ended: it re-raises a worker's
\* exception, or gives the results in the order of the chunks; then
\* pool.close() and pool.join()
MapReturn ==
    /\ pc = "map"
    /\ AllEnded(task)
    /\ IF AnyRaised(task)
       THEN /\ pc' = "failed"
            /\ error' = "WorkerFailure"
            /\ UNCHANGED pool
       ELSE /\ pool' = "joined"
            /\ pc' = "joined"
            /\ UNCHANGED error
    /\ UNCHANGED <<inputs, mask, nbr_processes, flat, chunks, task, results,
                   finished, dispatched, tmp, written, all_time, ret>>

\* results placed in the order in which the workers finished (where the
\* sizes of the two slots agree)
MergeSlotByArrival(k) ==
    IF Len(chunks[finished[k]]) = Len(chunks[k])
    THEN finished[k] ELSE results[k][1].chunk_id

\* the slot of tmp that the k-th result is copied to: its chunk id
MergeSlot(k) == results[k][1].chunk_id

\* one iteration of "for i, ... in results", on the loop's variables
MergeChunk(acc, k) ==
    LET r  == results[k][1].res
        i  == MergeSlot(k)
        lo == Offsets(chunks)[i]
        hi == Offsets(chunks)[i + 1]
    IN  [tmp      |-> MergeInto(op, acc.tmp,
                                IF op = "maps_from_sh" THEN MapsOf(r) ELSE r,
                                lo, hi),
         all_time |-> IF op = "maps_from_sh"
                      THEN [max_odf    |-> ReduceMaxOdf(acc.all_time, r),
                            global_max |-> ReduceGlobalMax(acc.all_time, r)]
                      ELSE acc.all_time,
         written  |-> [k2 \in 1..Len(acc.written) |->
                         IF k2 > lo /\ k2 <= hi
                         THEN Append(acc.written[k2], i)
                         ELSE acc.written[k2]]]

RECURSIVE MergeFrom(_, _)
MergeFrom(acc, k) ==
    IF k > Len(results) THEN acc ELSE MergeFrom(MergeChunk(acc, k), k + 1)

\* "re-assemble the chunk together": the zero-filled buffers, the two
\* maxima at -inf, and the loop over the results
Reassemble ==
    /\ pc = "joined"
    /\ LET acc == MergeFrom(
                    [tmp      |-> ZeroTmp(op, opts, Len(flat)),
                     all_time |-> IF op = "maps_from_sh"
                                  THEN [max_odf |-> NegInf,
                                        global_max |-> NegInf]
                                  ELSE all_time,
                     written  |-> [k \in 1..Len(flat) |-> <<>>]], 1)
       IN  /\ tmp' = acc.tmp
           /\ all_time' = acc.all_time
           /\ written' = acc.written
    /\ pc' = "assembled"
    /\ UNCHANGED <<inputs, mask, nbr_processes, flat, chunks, pool, task,
                   results, finished, dispatched, ret, error>>

\* the output volumes are allocated and filled through the mask; the three
\* conversions and peaks_from_sh return them
ScatterStep ==
    /\ pc = "assembled"
    /\ IF op = "maps_from_sh"
       THEN /\ tmp' = ScatterBack(op, opts, tmp, mask)
            /\ pc' = "scattered"
            /\ UNCHANGED ret
       ELSE /\ ret' = <<ScatterBack(op, opts, tmp, mask)>>
            /\ pc' = "done"
            /\ UNCHANGED tmp
    /\ UNCHANGED <<inputs, mask, nbr_processes, flat, chunks, pool, task,
                   results, finished, dispatched, written, all_time,
                   error>>

\* maps_from_sh divides by the two maxima and returns
RescaleStep ==
    /\ pc = "scattered"
    /\ ret' = <<Rescale(tmp, all_time)>>
    /\ pc' = "done"
    /\ UNCHANGED <<inputs, mask, nbr_processes, flat, chunks, pool, task,
                   results, finished, dispatched, tmp, written,
                   all_time, error>>

\* every chunk computation succeeds
Next ==
    \/ Prepare
    \/ Sequential
    \/ Dispatch
    \/ \E i \in DOMAIN task : WorkerRun(i)
    \/ MapReturn
    \/ Reassemble
    \/ ScatterStep
    \/ RescaleStep

Spec == Init /\ [][Next]_vars

\* a chunk computation may raise
NextFault ==
    \/ Next
    \/ \E i \in DOMAIN task : WorkerRaise(i)

\* the calls in which a chunk computation may raise: no mask or a full mask
InitFault == Init /\ mask_arg \in {None, <<FullMask>>}

SpecFault == InitFault /\ [][NextFault]_vars

(***************************************************************************)
(* Properties of maps_from_sh.                                             *)
(***************************************************************************)
Chunked == pool = "joined"

\* what the sequential path of maps_from_sh returns for the inputs of the call
MapsSequentialReturn ==
    LET r == Loop(op, opts, flat)
    IN  Rescale(ScatterBack(op, opts, MapsOf(r), mask),
                [max_odf |-> r.max_odf, global_max |-> r.global_max])

\* C1: the six maps that maps_from_sh returns on the chunked path are the
\* maps the sequential path (nbr_processes = 1) returns for the same
\* coefficients, peak arrays, mask and gfa_thr.
C1_MapsSameForAnyWorkerCount ==
    (op = "maps_from_sh" /\ pc = "done" /\ Chunked)
        => ret = <<MapsSequentialReturn>>

\* C2: once the reassembly loop of maps_from_sh has visited every chunk
\* result, all_time_max_odf is the maximum of the chunks' max_odf and
\* all_time_global_max is the maximum of the chunks' global_max.
C2_TrackersAreMaxOverChunks ==
    (op = "maps_from_sh" /\ pc = "assembled" /\ Chunked)
        => /\ all_time.max_odf =
                RMaxSeq([i \in 1..Len(results) |-> results[i][1].res.max_odf])
           /\ all_time.global_max =
                RMaxSeq([i \in 1..Len(results) |->
                           results[i][1].res.global_max])

\* the QA row that voxel v of the volume should hold before the rescale
OwnQaRow(v) ==
    LET coef   == shm_coeff[v]
        dotted == VecMat(coef, B)
        odf    == [j \in 1..NDirs |-> IF dotted[j] < 0 THEN 0 ELSE dotted[j]]
        above  == ~RLess(GfaSq(odf), RMul(opts.gfa_thr, opts.gfa_thr))
        valid  == \E q \in 1..opts.npeaks : peak_indices_arg[v][q] > -1
    IN  IF mask[v] /\ AnyNonZero(coef) /\ above /\ valid
        THEN [q \in 1..opts.npeaks |->
                RSub(peak_values_arg[v][q], R(MinSeq(odf)))]
        ELSE [q \in 1..opts.npeaks |-> R(0)]

\* C3: before the global rescale, the QA row of every voxel is that voxel's
\* own peak values minus its own ODF minimum when the voxel has GFA >=
\* gfa_thr and a valid peak, and is zero for every other voxel.
C3_QaRowIsTheVoxelsOwn ==
    (op = "maps_from_sh" /\ pc = "scattered")
        => \A v \in 1..NVox : tmp.qa_map[v] = OwnQaRow(v)

(***************************************************************************)
(* Properties of the mask, of the worker count and of the pool.            *)
(***************************************************************************)
BasisNoOp ==
    /\ op = "convert_sh_basis"
    /\ opts.input_basis = opts.output_basis
    /\ opts.is_input_legacy = opts.is_output_legacy

\* C4: when no mask is passed, the mask that the operation derives is true
\* for exactly the voxels that hold at least one non-zero coefficient.
C4_DefaultMaskIsAnyNonZero ==
    (mask_arg = None /\ pc # "call" /\ ~BasisNoOp)
        => mask = [v \in 1..NVox |-> AnyNonZero(shm_coeff[v])]

\* C5: peaks_from_sh returns, for every voxel whose coefficients are all
\* zero, npeaks slots of zero direction, zero value and index -1, whether
\* the voxel is inside the mask or not.
C5_ZeroVoxelHasEmptyPeaks ==
    (op = "peaks_from_sh" /\ pc = "done")
        => \A v \in 1..NVox :
              ~AnyNonZero(shm_coeff[v])
                 => /\ \A k \in 1..opts.npeaks :
                          /\ ret[1][v].dirs[k] = <<R(0), R(0), R(0)>>
                          /\ ret[1][v].values[k] = R(0)
                          /\ ret[1][v].indices[k] = -1

\* C6: a worker count of 0 or None is resolved to the number of hardware
\* threads before the chunking, and the call does not fail: the data is
\* never split into 0 or None chunks.
C6_ZeroOrNoneMeansAutodetect ==
    (nbr_arg \in {None, <<0>>} /\ ~BasisNoOp)
        => /\ pc # "failed"
           /\ pc # "call" => nbr_processes = <<CpuCount>>

\* C7: when the computation of a chunk raises, the call fails: nothing is
\* returned, no chunk result is copied to an output buffer, and no chunk
\* is dispatched a second time.
C7_WorkerFailureIsFatal ==
    (\E i \in DOMAIN task : task[i] = "raised")
        => /\ pc \in {"map", "failed"}
           /\ ret = None
           /\ tmp = <<>>
           /\ \A i \in DOMAIN dispatched : dispatched[i] = 1

C7_Witness ==
    /\ pc = "failed"
    /\ error = "WorkerFailure"
    /\ \E i \in DOMAIN task : task[i] = "raised"
    /\ \E i \in DOMAIN task : task[i] = "done" /\ Len(chunks[i]) > 0

\* what the sequential path of the operation returns for the call's inputs
SequentialReturn == ScatterBack(op, opts, Loop(op, opts, flat), mask)

\* C8: the arrays that peaks_from_sh, convert_sh_basis and convert_sh_to_sf
\* return on the chunked path equal the arrays of the sequential path.
C8_SameForAnyWorkerCount ==
    (op # "maps_from_sh" /\ pc = "done" /\ Chunked)
        => ret = <<SequentialReturn>>

C8_Witness ==
    /\ op = "convert_sh_to_sf"
    /\ pc = "done"
    /\ Chunked
    /\ Len(flat) > 0
    /\ Len(flat) < nbr_processes[1]
    /\ \E v \in 1..NVox : \E j \in 1..NDirs : ret[1][v][j] # 0

\* the flat positions before those of chunk i, from the chunks themselves
Before(i) == SumSeq([k \in 1..(i - 1) |-> Len(chunks[k])])

\* C9: the flat array is split into nbr_processes contiguous chunks that
\* cover it in order, with sizes that differ by at most 1; the result of
\* chunk i is written to the slice that starts at the sum of the sizes of
\* the chunks before it, so that every position is written once, by the
\* chunk that holds it.
C9_ChunksPartitionTheVoxels ==
    /\ (pc = "map" /\ finished = <<>>)
          => /\ Len(chunks) = nbr_processes[1]
             /\ \A i \in 1..Len(chunks) :
                   chunks[i] = SubSeq(flat, Before(i) + 1, Before(i + 1))
             /\ Before(Len(chunks) + 1) = Len(flat)
             /\ \A i, j \in 1..Len(chunks) :
                   Len(chunks[i]) - Len(chunks[j]) \in {-1, 0, 1}
    /\ (pc = "assembled" /\ Chunked)
          => \A i \in 1..Len(chunks) :
                \A k \in 1..Len(flat) :
                   written[k] = <<i>>
                      <=> (Before(i) < k /\ k <= Before(i + 1))

C9_Witness ==
    /\ pc = "assembled"
    /\ Chunked
    /\ Len(chunks) = 2
    /\ Len(chunks[1]) = 2
    /\ Len(chunks[2]) = 1
    /\ written = <<<<1>>, <<1>>, <<2>>>>

\* the k-th row of a buffer or of a chunk result holding n rows
RowAt(o, t, n, k) ==
    IF o = "maps_from_sh"
    THEN <<t.nufo_map[k], t.afd_max[k], t.afd_sum[k], t.rgb_map[k],
           t.gfa_map[k], QaRows(t.qa_map, n)[k]>>
    ELSE t[k]

\* C10: whatever the order in which the workers finish, the reassembled
\* flat output holds at the positions of chunk i the rows that the
\* computation of chunk i returned, in their order.
C10_PlacedByChunkId ==
    (pc = "assembled" /\ Chunked)
        => \A i \in 1..Len(chunks) :
              \A k \in 1..Len(chunks[i]) :
                 RowAt(op, tmp, Len(flat), Before(i) + k)
                    = RowAt(op, Loop(op, opts, chunks[i]), Len(chunks[i]), k)

C10_Witness ==
    /\ pc = "assembled"
    /\ Chunked
    /\ finished = <<2, 1>>
    /\ Len(chunks[1]) > 0
    /\ Len(chunks[2]) > 0
    /\ RowAt(op, tmp, Len(flat), 1) # RowAt(op, tmp, Len(flat), Len(flat))

(***************************************************************************)
(* The barrier of maps_from_sh.                                            *)
(***************************************************************************)
\* C11: in maps_from_sh the rescale by the two trackers is applied only
\* once every chunk has returned and has been merged: from the moment the
\* maps are scattered, every task is done, the pool is joined, every flat
\* position has been written from a chunk result, and nothing is returned
\* before that.
C11_RescaleAfterTheBarrier ==
    (op = "maps_from_sh" /\ pool # "none")
        => /\ pc \in {"joined", "assembled", "scattered", "done"}
                => /\ \A i \in 1..Len(task) : task[i] = "done"
                   /\ \A i \in 1..Len(results) : results[i] # <<>>
                   /\ pool = "joined"
           /\ pc \in {"scattered", "done"}
                => \A k \in 1..Len(flat) : written[k] # <<>>
           /\ pc # "done" => ret = None

C11_Witness ==
    /\ op = "maps_from_sh"
    /\ pc = "done"
    /\ Chunked
    /\ finished = <<2, 1>>
    /\ Len(chunks[1]) > 0
    /\ Len(chunks[2]) > 0
    /\ \E v \in 1..NVox : ret[1].rgb_map[v].mag # R(0)

(***************************************************************************)
(* compute_sh_coefficients: the test on the shells of the gradient table   *)
(* and the fit.  The call is described by op and opts (the b-values of the *)
(* gradient table and b0_threshold); the variables of the chunked          *)
(* operations are not used.                                                *)
(***************************************************************************)
executor == <<mask, nbr_processes, flat, chunks, pool, task, results,
              finished, dispatched, tmp, written, all_time>>

\* the state of the variables that a call which is not chunked leaves alone
NotChunked ==
    /\ shm_coeff = <<>>
    /\ mask_arg = None
    /\ nbr_arg = None
    /\ peak_values_arg = <<>>
    /\ peak_indices_arg = <<>>
    /\ mask = <<>>
    /\ nbr_processes = None
    /\ flat = <<>>
    /\ chunks = <<>>
    /\ pool = "none"
    /\ task = <<>>
    /\ results = <<>>
    /\ finished = <<>>
    /\ dispatched = <<>>
    /\ tmp = <<>>
    /\ written = <<>>
    /\ all_time = <<>>

NBvals == 3        \* number of volumes of the gradient table

\* b-values of a volume; any two are further apart than a shell is wide
BValues == {0, 50, 1000, 2000}

B0Thresholds == {20, 50}

\* the elements of a set of numbers in ascending order (shell_values.sort())
RECURSIVE SortAsc(_)
SortAsc(S) ==
    IF S = {} THEN <<>>
    ELSE LET lo == CHOOSE x \in S : \A y \in S : x <= y
         IN  <<lo>> \o SortAsc(S \ {lo})

\* identify_shells: one shell per cluster of b-values
identify_shells(bvals) == {bvals[i] : i \in 1..Len(bvals)}

\* a test that only counts the shells
NotSingleShellByCount(shell_values, b0_threshold) == Len(shell_values) # 2

\* line 93: shell_values.shape[0] != 2 or shell_values[0] > b0_threshold
NotSingleShell(shell_values, b0_threshold) ==
    \/ Len(shell_values) # 2
    \/ shell_values[1] > b0_threshold

InitFit ==
    /\ op = "compute_sh_coefficients"
    /\ opts \in [bvals : [1..NBvals -> BValues], b0_threshold : B0Thresholds]
    /\ NotChunked
    /\ pc = "call"
    /\ ret = None
    /\ error = "none"

\* lines 91-94: the shells are identified, sorted and tested
CheckShells ==
    /\ op = "compute_sh_coefficients"
    /\ pc = "call"
    /\ IF NotSingleShell(SortAsc(identify_shells(opts.bvals)),
                         opts.b0_threshold)
       THEN pc' = "failed" /\ error' = "ValueError"
       ELSE pc' = "fit" /\ UNCHANGED error
    /\ UNCHANGED <<inputs, executor, ret>>

\* lines 97-117: the volumes outside b0_mask are fitted and returned
FitSh ==
    /\ op = "compute_sh_coefficients"
    /\ pc = "fit"
    /\ ret' = <<[fitted |-> {i \in 1..NBvals :
                               opts.bvals[i] > opts.b0_threshold}]>>
    /\ pc' = "done"
    /\ UNCHANGED <<inputs, executor, error>>

NextFit == CheckShells \/ FitSh

SpecFit == InitFit /\ [][NextFit]_vars

\* the sorted shell values of the call's gradient table
ShellValues == SortAsc(identify_shells(opts.bvals))

\* C12 as stated: the table is accepted exactly when it has two shells and
\* the smallest shell value is below b0_threshold; any other table raises
\* the single-shell error, before the fit and with nothing returned.
C12_AcceptsOnlyBelowThreshold ==
    (op = "compute_sh_coefficients" /\ pc # "call")
        => /\ pc # "failed"
                <=> (Len(ShellValues) = 2
                        /\ ShellValues[1] < opts.b0_threshold)
           /\ pc = "failed" => (ret = None /\ error = "ValueError")

\* C12 amended: the table is accepted exactly when it has two shells and
\* the smallest shell value is at most b0_threshold (a lowest shell equal
\* to the threshold is accepted); any other table raises the single-shell
\* error, before the fit and with nothing returned.
C12_AcceptsUpToThreshold ==
    (op = "compute_sh_coefficients" /\ pc # "call")
        => /\ pc # "failed"
                <=> (Len(ShellValues) = 2
                        /\ ShellValues[1] <= opts.b0_threshold)
           /\ pc = "failed" => (ret = None /\ error = "ValueError")
           /\ ret # None => pc = "done"

C12_Witness ==
    /\ op = "compute_sh_coefficients"
    /\ pc = "failed"
    /\ error = "ValueError"
    /\ ShellValues = <<0, 1000, 2000>>
    /\ ret = None

(***************************************************************************)
(* The conversions.                                                        *)
(***************************************************************************)
\* C13: convert_sh_basis called with the same input and output basis and
\* the same legacy flags returns its input unchanged, whatever the input
\* (rows of 5 coefficients included): no mask, worker count, flat array or
\* chunk is computed and no pool is created.  The returned value being the
\* input, a second application is the same call and returns the same.
C13_SameBasisReturnsTheInput ==
    (BasisNoOp /\ pc # "call")
        => /\ pc = "done"
           /\ ret = <<shm_coeff>>
           /\ error = "none"
           /\ mask = <<>>
           /\ nbr_processes = None
           /\ flat = <<>>
           /\ chunks = <<>>
           /\ pool = "none"
           /\ task = <<>>

C13_Witness ==
    /\ BasisNoOp
    /\ pc = "done"
    /\ shm_coeff \in OddVolumes
    /\ \E v \in 1..NVox : AnyNonZero(shm_coeff[v])
    /\ nbr_arg = <<MaxProc>>
    /\ ret = <<shm_coeff>>

\* C14: convert_sh_to_sf returns, for each voxel of the mask, the product
\* of the coefficients with the matrix at the requested precision: for
\* float64 the exact samples (no value has gone through a float32 buffer),
\* for float32 the samples rounded to float32.
C14_SfHeldAtRequestedPrecision ==
    (op = "convert_sh_to_sf" /\ pc = "done")
        => \A v \in 1..NVox :
              mask[v]
                 => ret[1][v] =
                       IF opts.dtype = "float64"
                       THEN VecMat(shm_coeff[v], B_in)
                       ELSE [j \in 1..NDirs |->
                               Float32(VecMat(shm_coeff[v],
                                              AsType(B_in, "float32"))[j])]

(***************************************************************************)
(* Masking.                                                                *)
(***************************************************************************)
\* the row of the returned arrays at voxel v
ReturnedRow(v) ==
    IF op = "maps_from_sh"
    THEN <<ret[1].nufo_map[v], ret[1].afd_max[v], ret[1].afd_sum[v],
           ret[1].rgb_map[v].mag, ret[1].gfa_map[v], ret[1].qa_map[v]>>
    ELSE ret[1][v]

\* the row of a voxel that no operation has touched: zero everywhere
ZeroReturnedRow ==
    IF op = "peaks_from_sh"
    THEN [dirs    |-> [k \in 1..opts.npeaks |-> <<R(0), R(0), R(0)>>],
          values  |-> [k \in 1..opts.npeaks |-> R(0)],
          indices |-> [k \in 1..opts.npeaks |-> 0]]
    ELSE IF op = "maps_from_sh"
    THEN <<0, R(0), 0, R(0), R(0), [q \in 1..opts.npeaks |-> R(0)]>>
    ELSE IF op = "convert_sh_basis" THEN [j \in 1..NCoef |-> 0]
    ELSE [j \in 1..NDirs |-> 0]

\* C15: when a chunked operation has returned, every voxel outside the
\* mask holds zero in every output, and the k-th true voxel of the mask
\* holds the k-th row of the flat result (for maps_from_sh, of the maps
\* that are not rescaled afterwards).
C15_ScatterByMask ==
    (op \in Ops /\ pc = "done" /\ ~BasisNoOp)
        => \A v \in 1..NVox :
              IF mask[v]
              THEN IF op = "maps_from_sh"
                   THEN LET one == Loop(op, opts, <<flat[Rank(mask, v)]>>)
                        IN  /\ ret[1].nufo_map[v] = one.nufo_map[1]
                            /\ ret[1].afd_max[v] = one.afd_max[1]
                            /\ ret[1].afd_sum[v] = one.afd_sum[1]
                            /\ ret[1].gfa_map[v] = one.gfa_map[1]
                   ELSE ret[1][v] = tmp[Rank(mask, v)]
              ELSE ReturnedRow(v) = ZeroReturnedRow

(***************************************************************************)
(* compute_rish.  The call is described by op, shm_coeff (the array sh),   *)
(* mask_arg and opts.full_basis.  Positions of numpy arrays are 0-based in *)
(* the code; reduce_indices keeps the code's 0-based values.               *)
(***************************************************************************)
\* the SH order of a coefficient count: (o+1)(o+2)/2 coefficients for the
\* symmetric basis, (o+1)^2 for the full basis
order_from_ncoef(ncoef, full_basis) ==
    CHOOSE o \in 0..ncoef :
        IF full_basis THEN (o + 1) * (o + 1) = ncoef
        ELSE (o + 1) * (o + 2) = 2 * ncoef

\* the orders the basis holds: the even ones, or all of them
BasisOrders(sh_order, full_basis) ==
    {l \in 0..sh_order : full_basis \/ l % 2 = 0}

\* order_ids of sph_harm_ind_list: each order l of the basis, in ascending
\* order, once for each of its 2l + 1 degrees
RECURSIVE OrderIdsFrom(_, _, _)
OrderIdsFrom(l, sh_order, full_basis) ==
    IF l > sh_order THEN <<>>
    ELSE (IF l \in BasisOrders(sh_order, full_basis)
          THEN [k \in 1..(2 * l + 1) |-> l] ELSE <<>>)
         \o OrderIdsFrom(l + 1, sh_order, full_basis)

\* np.bincount(ids): how often each of 0..max(ids) occurs
Bincount(ids) ==
    [k \in 1..(MaxSeq(ids) + 1) |->
        Cardinality({i \in 1..Len(ids) : ids[i] = k - 1})]

\* s[::step]
Stride(s, step) ==
    [k \in 1..((Len(s) + step - 1) \div step) |-> s[(k - 1) * step + 1]]

\* a step of 1 for either basis
RishStepOne(full_basis) == 1

\* line 159: step = 1 if full_basis else 2
RishStep(full_basis) == IF full_basis THEN 1 ELSE 2

\* np.concatenate([[0], np.cumsum(n)])[:-1]
OrderPositions(n) ==
    [k \in 1..Len(n) |-> SumSeq(SubSeq(n, 1, k - 1))]

\* np.repeat(positions, 2)[1:]
ReduceIndices(positions) ==
    Tail([k \in 1..(2 * Len(positions)) |-> positions[(k + 1) \div 2]])

\* np.add.reduceat(a, idx): the sum of a[idx[i]:idx[i+1]], a[idx[i]] alone
\* when idx[i] >= idx[i+1], and the sum of a[idx[i]:] for the last index
AddReduceat(a, idx) ==
    [i \in 1..Len(idx) |->
        IF i = Len(idx) THEN SumSeq(SubSeq(a, idx[i] + 1, Len(a)))
        ELSE IF idx[i] < idx[i + 1]
        THEN SumSeq(SubSeq(a, idx[i] + 1, idx[i + 1]))
        ELSE a[idx[i] + 1]]

\* lines 149-181
compute_rish(sh, m, full_basis) ==
    LET sh_order   == order_from_ncoef(Len(sh[1]), full_basis)
        order_ids  == OrderIdsFrom(0, sh_order, full_basis)
        inside(v)  == IF m = None THEN 1 ELSE (IF m[1][v] THEN 1 ELSE 0)
        masked     == [v \in 1..Len(sh) |->
                         [j \in 1..Len(sh[v]) |-> sh[v][j] * inside(v)]]
        n          == Stride(Bincount(order_ids), RishStep(full_basis))
        reduce_indices == ReduceIndices(OrderPositions(n))
        squared_sh == [v \in 1..Len(sh) |->
                         [j \in 1..Len(sh[v]) |-> masked[v][j] * masked[v][j]]]
        rish       == [v \in 1..Len(sh) |->
                         Stride(AddReduceat(squared_sh[v], reduce_indices), 2)]
    IN  [rish   |-> [v \in 1..Len(sh) |->
                       [k \in 1..Len(rish[v]) |-> rish[v][k] * inside(v)]],
         orders |-> SortAsc({order_ids[i] : i \in 1..Len(order_ids)})]

\* rows of 1 coefficient (order 0 of either basis) and of 4 (order 1 of the
\* full basis); CoefRows are rows of order 2 of the symmetric basis
RishRows(full_basis) ==
    IF full_basis
    THEN {{<<0>>, <<3>>}, {<<0, 0, 0, 0>>, <<1, -2, 0, 2>>}}
    ELSE {{<<0>>, <<3>>}, CoefRows}

InitRish ==
    /\ op = "compute_rish"
    /\ opts \in [full_basis : BOOLEAN]
    /\ \E rows \in RishRows(opts.full_basis) : shm_coeff \in [1..NVox -> rows]
    /\ mask_arg \in MaskArgs
    /\ nbr_arg = None
    /\ peak_values_arg = <<>>
    /\ peak_indices_arg = <<>>
    /\ mask = <<>>
    /\ nbr_processes = None
    /\ flat = <<>>
    /\ chunks = <<>>
    /\ pool = "none"
    /\ task = <<>>
    /\ results = <<>>
    /\ finished = <<>>
    /\ dispatched = <<>>
    /\ tmp = <<>>
    /\ written = <<>>
    /\ all_time = <<>>
    /\ pc = "call"
    /\ ret = None
    /\ error = "none"

ComputeRish ==
    /\ op = "compute_rish"
    /\ pc = "call"
    /\ ret' = <<compute_rish(shm_coeff, mask_arg, opts.full_basis)>>
    /\ pc' = "done"
    /\ UNCHANGED <<inputs, executor, error>>

NextRish == ComputeRish

SpecRish == InitRish /\ [][NextRish]_vars

\* the order that coefficient j of a row of ncoef coefficients belongs to
OrderOfCoef(j, ncoef, full_basis) ==
    CHOOSE l \in 0..ncoef :
        IF full_basis THEN l * l < j /\ j <= (l + 1) * (l + 1)
        ELSE l % 2 = 0 /\ (l - 1) * l < 2 * j /\ 2 * j <= (l + 1) * (l + 2)

\* for voxel v: one channel per order of the list, channel k the sum of the
\* squared coefficients of order orders[k], the channels summing to the sum
\* of all squared coefficients
RishOfVoxel(v) ==
    LET coef   == shm_coeff[v]
        ncoef  == Len(coef)
        orders == ret[1].orders
    IN  /\ Len(ret[1].rish[v]) = Len(orders)
        /\ \A k \in 1..Len(orders) :
              ret[1].rish[v][k] =
                 SumSeq([j \in 1..ncoef |->
                           IF OrderOfCoef(j, ncoef, opts.full_basis) = orders[k]
                           THEN coef[j] * coef[j] ELSE 0])
        /\ SumSeq(ret[1].rish[v]) = Dot(coef, coef)

\* the list of orders: every order of the basis once, ascending
RishOrders ==
    LET orders == ret[1].orders
        ncoef  == Len(shm_coeff[1])
    IN  /\ \A k \in 1..(Len(orders) - 1) : orders[k] < orders[k + 1]
        /\ {orders[k] : k \in 1..Len(orders)}
              = {OrderOfCoef(j, ncoef, opts.full_basis) : j \in 1..ncoef}
        /\ opts.full_basis \/ \A k \in 1..Len(orders) : orders[k] % 2 = 0

\* C16 as stated: compute_rish returns the ascending list of the orders and,
\* for every voxel, one channel per order that is the sum of the squared
\* coefficients of that order, so that the channels of the voxel sum to the
\* sum of its squared coefficients.
C16_RishOfEveryVoxel ==
    (op = "compute_rish" /\ pc = "done")
        => /\ RishOrders
           /\ \A v \in 1..NVox : RishOfVoxel(v)

\* C16 amended: the same for every voxel inside the mask (every voxel when
\* no mask is given); a voxel outside the mask has one channel per order
\* and every channel is zero.
C16_RishOfMaskedVoxels ==
    (op = "compute_rish" /\ pc = "done")
        => /\ RishOrders
           /\ \A v \in 1..NVox :
                 IF mask_arg = None \/ mask_arg[1][v]
                 THEN RishOfVoxel(v)
                 ELSE ret[1].rish[v] = [k \in 1..Len(ret[1].orders) |-> 0]

C16_Witness ==
    /\ op = "compute_rish"
    /\ pc = "done"
    /\ ~opts.full_basis
    /\ mask_arg = None
    /\ shm_coeff[1] = <<9, 3, 3, 0, 0, 0>>
    /\ ret[1].orders = <<0, 2>>
    /\ ret[1].rish[1] = <<81, 18>>

(***************************************************************************)
(* The maps of a voxel.                                                    *)
(***************************************************************************)
\* voxel v is in the mask, has a non-zero coefficient and a GFA below gfa_thr
BelowGfaThr(v) ==
    /\ mask[v]
    /\ AnyNonZero(shm_coeff[v])
    /\ RLess(VoxelOdf(shm_coeff[v]).gfa, RMul(opts.gfa_thr, opts.gfa_thr))

\* C17: in the maps that maps_from_sh returns, a voxel whose GFA is below
\* gfa_thr has NUFO, AFD-max, AFD-sum, GFA and QA all zero.
C17_BelowThresholdOnlyRgb ==
    (op = "maps_from_sh" /\ pc = "done")
        => \A v \in 1..NVox :
              BelowGfaThr(v)
                 => /\ ret[1].nufo_map[v] = 0
                    /\ ret[1].afd_max[v] = R(0)
                    /\ ret[1].afd_sum[v] = 0
                    /\ ret[1].gfa_map[v] = R(0)
                    /\ \A q \in 1..opts.npeaks : ret[1].qa_map[v][q] = R(0)

\* the number of peaks the loop of peaks_from_sh kept for voxel v: none for a
\* voxel its mask leaves out
Retained(v) ==
    IF ResolveMask(shm_coeff, opts.peaks_mask)[v]
    THEN CountValid(PeaksVoxelOf[shm_coeff[v]][MaxPeaks][FALSE].indices)
    ELSE 0

\* C18: the NUFO that maps_from_sh returns for a voxel is the number of
\* peaks peaks_from_sh retained for it when the voxel is in the mask, has a
\* non-zero coefficient and a GFA of at least gfa_thr, and 0 otherwise,
\* whatever masks the two calls were given.
C18_NufoIsTheRetainedPeakCount ==
    (op = "maps_from_sh" /\ pc = "done")
        => \A v \in 1..NVox :
              ret[1].nufo_map[v] =
                 IF mask[v] /\ AnyNonZero(shm_coeff[v]) /\ ~BelowGfaThr(v)
                 THEN Retained(v)
                 ELSE 0

(***************************************************************************)
(* The peak slots of a voxel.                                              *)
(***************************************************************************)
\* the ODF in which the maxima of a row of coefficients are searched
PeakOdf(row) ==
    LET dotted == VecMat(row, B)
    IN  [j \in 1..NDirs |->
            IF dotted[j] < absolute_threshold THEN 0 ELSE dotted[j]]

\* the maxima found for a row, in descending value order
MaximaFound(row) == IF AnyNonZero(row) THEN PeakDirections(PeakOdf(row)) ELSE <<>>

\* the slots of a voxel hold the Len(found) largest maxima first, with
\* non-increasing values, and are empty from slot n + 1 on
SlotsHold(slots, row, npeaks, normalize_peaks) ==
    LET odf   == PeakOdf(row)
        found == MaximaFound(row)
        n     == IF npeaks < Len(found) THEN npeaks ELSE Len(found)
    IN  /\ CountValid(slots.indices) = n
        /\ \A k \in 1..npeaks :
              IF k <= n
              THEN /\ slots.indices[k] = found[k] - 1
                   /\ slots.values[k] =
                         IF normalize_peaks
                         THEN RDiv(R(odf[found[k]]), R(odf[found[1]]))
                         ELSE R(odf[found[k]])
                   /\ k > 1 => ~RLess(slots.values[k - 1], slots.values[k])
                   /\ slots.dirs[k] =
                         [c \in 1..3 |->
                            IF normalize_peaks
                            THEN RMul(R(Vertices[found[k]][c]), slots.values[k])
                            ELSE R(Vertices[found[k]][c])]
              ELSE /\ slots.indices[k] = -1
                   /\ slots.values[k] = R(0)
                   /\ slots.dirs[k] = <<R(0), R(0), R(0)>>
        /\ (normalize_peaks /\ n > 0) => slots.values[1] = R(1)

\* C19: for every voxel that peaks_from_sh processes, min(npeaks, number of
\* maxima found) slots are filled, they are the first slots and hold the
\* largest maxima with non-increasing values, every other slot has zero
\* direction, zero value and index -1, and with normalize_peaks the first
\* value is 1 and each filled direction is scaled by its normalized value.
C19_PeakSlotsOfAVoxel ==
    (op = "peaks_from_sh" /\ pc = "done")
        => \A v \in 1..NVox :
              mask[v] => SlotsHold(ret[1][v], shm_coeff[v], opts.npeaks,
                                   opts.normalize_peaks)

\* a voxel with two maxima and three slots: both are kept, normalized, and
\* the third slot is left empty
C19_Witness ==
    /\ op = "peaks_from_sh"
    /\ pc = "done"
    /\ opts.normalize_peaks
    /\ opts.npeaks = 3
    /\ \E v \in 1..NVox :
          /\ mask[v]
          /\ Len(MaximaFound(shm_coeff[v])) = 2
          /\ ret[1][v].indices[2] > -1
          /\ ret[1][v].indices[3] = -1
          /\ ret[1][v].values[1] = R(1)
          /\ RLess(ret[1][v].values[2], R(1))

(***************************************************************************)
(* scil_resample_tractogram: main, from the loading of the tractogram to   *)
(* its saving.  The call is described by op and opts: the number of        *)
(* streamlines of the input file and the arguments of the command line.    *)
(* The locals of main (sft, original_number and args.nb_streamlines, which *)
(* main assigns) are the record tmp, together with the branch that was     *)
(* taken; a tractogram is the set of its streamlines, the streamlines of   *)
(* the input file being 1..n, and the subset of those that are invalid.    *)
(* The other variables of the chunked operations are not used.             *)
(***************************************************************************)
MaxStreamlines == 3     \* streamlines of the input file

StdArgs == {"none", "point_wise_std", "streamline_wise_std"}

\* load_tractogram_with_reference: the streamlines of the file, all valid
load_tractogram_with_reference(n) == [streamlines |-> 1..n, invalid |-> {}]

\* get_subset_streamlines: the subsets of nb streamlines of the tractogram
get_subset_streamlines(sft, nb) ==
    {[streamlines |-> S, invalid |-> sft.invalid \cap S] :
        S \in {T \in SUBSET sft.streamlines : Cardinality(T) = nb}}

\* upsample_tractogram: the streamlines of the tractogram and new noisy
\* ones up to nb in all, the last of which may leave the bounding box
upsample_tractogram(sft, nb) ==
    {[streamlines |-> 1..nb, invalid |-> sft.invalid \cup out] :
        out \in {{}, {nb}}}

\* a request that is passed on as it was given
RequestKept(never_upsample, nb_streamlines, original_number) ==
    nb_streamlines

\* lines 106-107: with --never_upsample a request above the count becomes
\* the count
ClampRequest(never_upsample, nb_streamlines, original_number) ==
    IF never_upsample /\ nb_streamlines > original_number
    THEN original_number
    ELSE nb_streamlines

InitResample ==
    /\ op = "scil_resample_tractogram"
    /\ opts \in [in_tractogram            : 1..MaxStreamlines,
                 nb_streamlines           : 0..(MaxStreamlines + 1),
                 std                      : StdArgs,
                 never_upsample           : BOOLEAN,
                 keep_invalid_streamlines : BOOLEAN]
    /\ NotChunked
    /\ pc = "call"
    /\ ret = None
    /\ error = "none"

resample_unused == <<mask, nbr_processes, flat, chunks, pool, task, results,
                     finished, dispatched, written, all_time>>

\* lines 103-104: the tractogram is loaded and counted
LoadTractogram ==
    /\ op = "scil_resample_tractogram"
    /\ pc = "call"
    /\ tmp' = [sft             |-> load_tractogram_with_reference(
                                      opts.in_tractogram),
               original_number |-> opts.in_tractogram,
               nb_streamlines  |-> opts.nb_streamlines,
               branch          |-> "none"]
    /\ pc' = "loaded"
    /\ UNCHANGED <<inputs, resample_unused, ret, error>>

\* lines 106-107
NeverUpsample ==
    /\ op = "scil_resample_tractogram"
    /\ pc = "loaded"
    /\ tmp' = [tmp EXCEPT !.nb_streamlines =
                  ClampRequest(opts.never_upsample, tmp.nb_streamlines,
                               tmp.original_number)]
    /\ pc' = "clamped"
    /\ UNCHANGED <<inputs, resample_unused, ret, error>>

\* lines 109-119: upsample, with the test on the two std arguments,
\* or take a subset, or neither
Resample ==
    /\ op = "scil_resample_tractogram"
    /\ pc = "clamped"
    /\ IF tmp.nb_streamlines > tmp.original_number
       THEN IF opts.std = "none"
            THEN /\ pc' = "failed"
                 /\ error' = "parser.error"
                 /\ UNCHANGED tmp
            ELSE /\ \E new \in upsample_tractogram(tmp.sft,
                                                    tmp.nb_streamlines) :
                       tmp' = [tmp EXCEPT !.sft = new,
                                          !.branch = "upsample"]
                 /\ pc' = "resampled"
                 /\ UNCHANGED error
       ELSE IF tmp.nb_streamlines < tmp.original_number
            THEN /\ \E sub \in get_subset_streamlines(tmp.sft,
                                                       tmp.nb_streamlines) :
                       tmp' = [tmp EXCEPT !.sft = sub,
                                          !.branch = "downsample"]
                 /\ pc' = "resampled"
                 /\ UNCHANGED error
            ELSE /\ pc' = "resampled"
                 /\ UNCHANGED <<tmp, error>>
    /\ UNCHANGED <<inputs, resample_unused, ret>>

\* lines 121-124: the invalid streamlines are removed unless they are to be
\* kept, and the tractogram is saved
SaveTractogram ==
    /\ op = "scil_resample_tractogram"
    /\ pc = "resampled"
    /\ ret' = <<IF opts.keep_invalid_streamlines
                THEN tmp.sft
                ELSE [streamlines |-> tmp.sft.streamlines \ tmp.sft.invalid,
                      invalid     |-> {}]>>
    /\ pc' = "done"
    /\ UNCHANGED <<inputs, resample_unused, tmp, error>>

NextResample == LoadTractogram \/ NeverUpsample \/ Resample \/ SaveTractogram

SpecResample == InitResample /\ [][NextResample]_vars

\* the script has ended: the tractogram is saved or the parser has exited
ResampleEnded == op = "scil_resample_tractogram" /\ pc \in {"done", "failed"}

\* the branch that the comparison of the request with the count decides
BranchByComparison(nb, n) ==
    IF nb < n THEN "downsample" ELSE IF nb > n THEN "upsample" ELSE "none"

\* the tractogram is saved with the streamlines of the input file
SavedOriginal ==
    /\ pc = "done"
    /\ ret[1].streamlines = 1..opts.in_tractogram

Finite(x) == x[2] # 0

\* C21: when maps_from_sh applies the rescale to an input with at least
\* one voxel in the mask, on the sequential and on the chunked path, the
\* RGB divisor is finite and above 0 and the QA divisor is finite and not 0.
C21_DivisorsAreValid ==
    (op = "maps_from_sh" /\ pc = "scattered" /\ \E v \in 1..NVox : mask[v])
        => /\ Finite(all_time.max_odf)
           /\ RLess(R(0), all_time.max_odf)
           /\ Finite(all_time.global_max)
           /\ all_time.global_max # R(0)

(***************************************************************************)
(* The pool at the end of a call.                                          *)
(***************************************************************************)
\* C22: when a chunked operation ends, by returning or by raising, the
\* pool it created has been closed and joined: no call ends with an open
\* pool, whether every chunk succeeded or the computation of a chunk raised.
C22_PoolIsJoinedAtTheEnd ==
    (op \in Ops /\ pc \in {"done", "failed"}) => pool \in {"none", "joined"}

(***************************************************************************)
(* The arrays of the caller.                                               *)
(***************************************************************************)
\* the calls of the four chunked operations and those of compute_rish
InitCore == Init \/ InitRish

NextCore == Next \/ NextRish

SpecCore == InitCore /\ [][NextCore]_vars

\* C23: no step of compute_rish, peaks_from_sh, maps_from_sh,
\* convert_sh_basis (sequential, chunked and no-op path) or convert_sh_to_sf
\* changes the coefficient volume, the peak arrays or the mask of the
\* caller, although the conversion loop overwrites its flat array in place.
C23_CallerArraysAreKept ==
    [][/\ shm_coeff' = shm_coeff
       /\ mask_arg' = mask_arg
       /\ peak_values_arg' = peak_values_arg
       /\ peak_indices_arg' = peak_indices_arg]_vars

\* a sequential convert_sh_basis has returned: the flat array holds the
\* converted rows, which differ from the rows of the caller's volume
C23_Witness ==
    /\ op = "convert_sh_basis"
    /\ pc = "done"
    /\ nbr_processes = <<1>>
    /\ Coefs(flat) = tmp
    /\ \E k \in 1..Len(flat) :
          flat[k].coef # Flatten(shm_coeff, mask)[k]
    /\ \A v \in 1..NVox : mask[v]

====
